---- MODULE Spec2Model ----
(***************************************************************************)
(* A model of src/src/lib.rs: the Repo, DocHandle and Text classes that    *)
(* wrap a samod repository.  Every coroutine the classes hand out is a     *)
(* future on the multi-threaded tokio runtime; a caller of the model is    *)
(* one such future, and an action is the stretch of a handler between two  *)
(* points where another future can run (an .await, or the other worker     *)
(* thread).                                                                *)
(***************************************************************************)
EXTENDS Integers, Sequences, FiniteSets, TLC

\* ------------------------------------------------------------------ bounds
NumCallers == 2
MaxTasks == 2
MaxDocs == 2
MaxHandles == 2
MaxTexts == 2
MaxObjs == 1
MaxLen == 3
WordBits == 3

Callers == 1..NumCallers
TaskIds == 1..MaxTasks
DocIds == 1..MaxDocs
ObjIds == 1..MaxObjs

\* ----------------------------------------------------------------- strings
\* A string is a sequence of characters.
Concat(s, t) == s \o t
Take(s, n) == SubSeq(s, 1, n)
Drop(s, n) == SubSeq(s, n + 1, Len(s))

\* The url scheme of DocHandle::url and Repo::find.
Prefix == <<"a", "u", "t", "o", "m", "e", "r", "g", "e", ":">>

\* An Option is a sequence: <<>> is None and <<x>> is Some(x).
Some(x) == <<x>>
unwrap_or(opt, default) == IF opt = <<>> THEN default ELSE opt[1]

\* str::strip_prefix: Some(the rest of s behind the prefix p), or None.
strip_prefix(s, p) ==
    IF Len(s) >= Len(p) /\ Take(s, Len(p)) = p THEN Some(Drop(s, Len(p))) ELSE <<>>

\* DocumentId's Display: the engine's identifier string (here the id in unary).
to_string(id) == [i \in 1..id |-> "z"]

\* DocumentId's FromStr: Some(the id a string denotes), or None for a parse error.
parse(s) ==
    IF Len(s) >= 1 /\ \A i \in 1..Len(s) : s[i] = "z" THEN Some(Len(s)) ELSE <<>>

\* DocHandle::document_id and DocHandle::url.
document_id(h) == to_string(h.document_id)
url(h) == Concat(Prefix, to_string(h.document_id))

\* Uri's FromStr, as far as connect_websocket uses it: well-formed or not.
Urls == {"ws://localhost:3030", "not a url"}
UrlParses(u) == u = "ws://localhost:3030"

\* What callers pass to find: both forms of every identifier (of documents
\* that exist and of one that does not), a doubled prefix, and strings that
\* are no identifier.
FindInputs ==
    UNION {{to_string(id), Concat(Prefix, to_string(id))} : id \in 1..(MaxDocs + 1)}
    \cup {Concat(Prefix, Concat(Prefix, to_string(1))), <<"n", "o">>, Prefix}

Keys == {"a", "b"}
Values == {<<"x">>, <<"y">>}

\* isize, at the width of the model's machine word (a usize is 0 to
\* 2^WordBits - 1); `n as isize` keeps the bits of n.
Isize == (0 - 2^(WordBits - 1))..(2^(WordBits - 1) - 1)
as_isize(n) == IF n >= 2^(WordBits - 1) THEN n - 2^WordBits ELSE n


\* ------------------------------------------------------------------- state
VARIABLES
    stopped,    \* the samod repository behind Repo.inner has been stopped
    docs,       \* the documents the samod repository holds, by DocumentId
    task,       \* every spawned connection task: running, finished or aborted
    tasks,      \* Repo.tasks: the JoinHandles pushed and not yet drained
    tasksLock,  \* the callers (none or one) holding the AsyncMutex around Repo.tasks
    handles,    \* the DocHandle and Text objects handed out, in order
    locks,      \* the AsyncMutex objects made for them: holder and FIFO waiters
    pc,         \* where each caller's future stands
    call,       \* the call each caller's future is running
    ret,        \* what each caller's last call returned
    stopDone,   \* history: some stop call has returned
    row         \* history: the stop calls that ran one after the other, alone

vars == <<stopped, docs, task, tasks, tasksLock, handles, locks, pc, call, ret, stopDone, row>>

NoCall == [op |-> "none"]
NoRet == [op |-> "none", arg |-> <<>>, status |-> "none", val |-> <<>>, late |-> FALSE]
NoValue == [t |-> "none"]
NoDoc == [exists |-> FALSE]

\* automerge::Automerge::new(): no root field and no object.
EmptyDoc == [exists |-> TRUE, root |-> [k \in Keys |-> NoValue],
             nobj |-> 0, text |-> [o \in ObjIds |-> <<>>]]

\* The error kinds, as the exception each handler raises.
Ok == "Ok"
InvalidEndpoint == "ValueError: Invalid URL"
ConnectionFailure == "RuntimeError: Failed to connect"
InvalidDocumentId == "ValueError: Invalid document ID"
RepositoryStopped == "RuntimeError: Repository stopped"
DocumentOperationFailure == "RuntimeError: Document operation failed"

SerializationFailure == "RuntimeError: Failed to save document"

\* What pyo3 raises for an integer argument outside the parameter's type.
OverflowError == "OverflowError"

\* A call's outcome: the operation, its argument where a claim needs it, the
\* error kind or Ok, the value, and whether the call began after a stop returned.
Result(op, arg, status, val, late) ==
    [op |-> op, arg |-> arg, status |-> status, val |-> val, late |-> late]

\* Repo::new: a running repository with in-memory storage, no task, no handle.
Init ==
    /\ stopped = FALSE
    /\ docs = [d \in DocIds |-> NoDoc]
    /\ task = [t \in TaskIds |-> "none"]
    /\ tasks = <<>>
    /\ tasksLock = {}
    /\ handles = <<>>
    /\ locks = <<>>
    /\ pc = [c \in Callers |-> "idle"]
    /\ call = [c \in Callers |-> NoCall]
    /\ ret = [c \in Callers |-> NoRet]
    /\ stopDone = FALSE
    /\ row = "none"

\* A caller's future has ended: its result is delivered.
Return(c, r) ==
    /\ pc' = [pc EXCEPT ![c] = "idle"]
    /\ call' = [call EXCEPT ![c] = NoCall]
    /\ ret' = [ret EXCEPT ![c] = r]

\* A caller starts a call; `late` records that a stop had returned before.
\* (`late`, and the fields `registered` of a stop and `pushed` of a connect,
\* are history kept for the properties: no action reads them.)
Start(c, p, what) ==
    /\ pc[c] = "idle"
    /\ pc' = [pc EXCEPT ![c] = p]
    /\ call' = [call EXCEPT ![c] = what @@ [late |-> stopDone]]
    /\ ret' = [ret EXCEPT ![c] = NoRet]

\* Model bounds: calls that would need more tasks, documents, DocHandles or
\* Texts than the model holds are not started.
Spawned == {t \in TaskIds : task[t] # "none"}
TaskBudget ==
    Cardinality(Spawned)
      + Cardinality({c \in Callers : pc[c] \in {"connecting", "connected"}}) < MaxTasks
DocBudget ==
    Cardinality({d \in DocIds : docs[d].exists})
      + Cardinality({c \in Callers : call[c].op = "create"}) < MaxDocs
Budget(n) ==
    Len(handles)
      + Cardinality({c \in Callers :
            call[c].op \in {"create", "find", "put_text", "get_text"}}) < n
HandleBudget == Budget(MaxHandles)

\* ------------------------------------------------- Repo::connect_websocket
\* url.parse(): a malformed url ends the call before anything is connected.
ConnectCall(c, u) ==
    /\ pc[c] = "idle"
    /\ IF UrlParses(u)
       THEN TaskBudget /\ Start(c, "connecting", [op |-> "connect"])
       ELSE /\ pc' = pc
            /\ call' = call
            /\ ret' = [ret EXCEPT ![c] =
                         Result("connect", <<>>, InvalidEndpoint, <<>>, stopDone)]
    /\ UNCHANGED <<stopped, docs, task, tasks, tasksLock, handles, locks, stopDone>>
    /\ row' = "none"

\* connect_async(url).await: the transport comes up, or the call fails.
ConnectTransport(c) ==
    /\ pc[c] = "connecting"
    /\ \/ /\ pc' = [pc EXCEPT ![c] = "connected"]
          /\ UNCHANGED <<call, ret>>
       \/ Return(c, Result("connect", <<>>, ConnectionFailure, <<>>, call[c].late))
    /\ UNCHANGED <<stopped, docs, task, tasks, tasksLock, handles, locks, stopDone>>
    /\ row' = "none"

\* tokio::spawn: the connection task runs from here on; the future keeps its
\* JoinHandle in a local.
ConnectSpawn(c) ==
    /\ pc[c] = "connected"
    /\ LET t == CHOOSE t \in TaskIds : task[t] = "none" /\ \A u \in TaskIds : task[u] = "none" => t <= u
       IN /\ task' = [task EXCEPT ![t] = "running"]
          /\ call' = [call EXCEPT ![c] = @ @@ [handle |-> t, pushed |-> FALSE]]
    /\ pc' = [pc EXCEPT ![c] = "spawned"]
    /\ UNCHANGED <<stopped, docs, tasks, tasksLock, handles, locks, ret, stopDone>>
    /\ row' = "none"

\* A connect that drops the JoinHandle instead of pushing it.
ConnectPushDropped(c) ==
    /\ pc[c] = "spawned"
    /\ tasksLock = {}
    /\ pc' = [pc EXCEPT ![c] = "sleep"]
    /\ call' = [call EXCEPT ![c].pushed = TRUE]
    /\ UNCHANGED <<stopped, docs, task, tasks, tasksLock, handles, locks, ret, stopDone>>
    /\ row' = "none"

\* tasks.lock().await.push(handle): the guard is a temporary of the statement.
ConnectPush(c) ==
    /\ pc[c] = "spawned"
    /\ tasksLock = {}
    /\ tasks' = Append(tasks, call[c].handle)
    /\ pc' = [pc EXCEPT ![c] = "sleep"]
    /\ call' = [call EXCEPT ![c].pushed = TRUE]
    /\ UNCHANGED <<stopped, docs, task, tasksLock, handles, locks, ret, stopDone>>
    /\ row' = "none"

\* The 100 ms sleep is over: Ok(None).
ConnectReturn(c) ==
    /\ pc[c] = "sleep"
    /\ Return(c, Result("connect", <<>>, Ok, <<>>, call[c].late))
    /\ UNCHANGED <<stopped, docs, task, tasks, tasksLock, handles, locks, stopDone>>
    /\ row' = "none"

\* The spawned task: connect_tungstenite returns when the connection ends.
TaskFinish(t) ==
    /\ task[t] = "running"
    /\ task' = [task EXCEPT ![t] = "finished"]
    /\ UNCHANGED <<stopped, docs, tasks, tasksLock, handles, locks, pc, call, ret, stopDone>>
    /\ row' = "none"

\* ------------------------------------------------------------- Repo::stop
\* An abort that cancels nothing.
abortNothing(t) == task

\* JoinHandle::abort: cancels a task that still runs.
abort(t) == [task EXCEPT ![t] = IF @ = "running" THEN "aborted" ELSE @]

\* tasks.lock().await: the guard lives as long as the for loop.
StopLock(c) ==
    /\ tasksLock = {}
    /\ Start(c, "drain", [op |-> "stop", registered |-> tasks])
    /\ tasksLock' = {c}
    /\ row' = IF \E o \in Callers \ {c} : pc[o] # "idle" THEN "none"
              ELSE IF row \in {"between", "twice"} THEN "second"
              ELSE "first"
    /\ UNCHANGED <<stopped, docs, task, tasks, handles, locks, stopDone>>

\* One turn of `for handle in ...drain(..) { handle.abort(); }`.
StopAbort(c) ==
    /\ pc[c] = "drain"
    /\ tasks # <<>>
    /\ task' = abort(Head(tasks))
    /\ tasks' = Tail(tasks)
    /\ UNCHANGED <<stopped, docs, tasksLock, handles, locks, pc, call, ret, stopDone, row>>

\* A stop that leaves its loop with the guard still held.
StopUnlockHeld(c) ==
    /\ pc[c] = "drain"
    /\ tasks = <<>>
    /\ pc' = [pc EXCEPT ![c] = "halt"]
    /\ UNCHANGED <<stopped, docs, task, tasks, tasksLock, handles, locks, call, ret, stopDone, row>>

\* The loop is over: the guard is dropped.
StopUnlock(c) ==
    /\ pc[c] = "drain"
    /\ tasks = <<>>
    /\ tasksLock' = {}
    /\ pc' = [pc EXCEPT ![c] = "halt"]
    /\ UNCHANGED <<stopped, docs, task, tasks, handles, locks, call, ret, stopDone, row>>

\* repo.stop().await: the engine halts.
StopHalt(c) ==
    /\ pc[c] = "halt"
    /\ stopped' = TRUE
    /\ pc' = [pc EXCEPT ![c] = "halted"]
    /\ UNCHANGED <<docs, task, tasks, tasksLock, handles, locks, call, ret, stopDone, row>>

\* Ok(None): stop has no error path.
StopReturn(c) ==
    /\ pc[c] = "halted"
    /\ Return(c, Result("stop", <<>>, Ok, <<>>, call[c].late))
    /\ stopDone' = TRUE
    /\ row' = IF row = "first" THEN "between" ELSE IF row = "second" THEN "twice" ELSE "none"
    /\ UNCHANGED <<stopped, docs, task, tasks, tasksLock, handles, locks>>


\* ------------------------------------------------------- handles and locks
\* Arc::new(AsyncMutex::new(handle)): every DocHandle and every Text is made
\* with a mutex of its own around (a clone of) the samod handle.  `inner` is
\* that mutex (Text calls the field `handle`); `parent`, the DocHandle a Text
\* came from, is history kept for the properties.
NewLock == [holder |-> {}, waiters |-> <<>>]
DocHandle(d, lock) == [kind |-> "doc", document_id |-> d, inner |-> lock]
Text(d, o, lock, parent) ==
    [kind |-> "text", document_id |-> d, obj_id |-> o, inner |-> lock, parent |-> parent]

\* DocHandle { document_id, inner: Arc::new(AsyncMutex::new(handle)) }
NewDocHandle(d) ==
    /\ handles' = Append(handles, DocHandle(d, Len(locks) + 1))
    /\ locks' = Append(locks, NewLock)

\* ----------------------------------------------------------- Repo::create
CreateCall(c) ==
    /\ stopDone \/ (DocBudget /\ HandleBudget)
    /\ Start(c, "create", [op |-> "create"])
    /\ UNCHANGED <<stopped, docs, task, tasks, tasksLock, handles, locks, stopDone>>
    /\ row' = "none"

\* repo.create(initial_doc).await and the match on its result.
CreateEngine(c) ==
    /\ pc[c] = "create"
    /\ IF stopped
       THEN /\ Return(c, Result("create", <<>>, RepositoryStopped, <<>>, call[c].late))
            /\ UNCHANGED <<docs, handles, locks>>
       ELSE LET d == CHOOSE d \in DocIds :
                        ~docs[d].exists /\ \A e \in DocIds : ~docs[e].exists => d <= e
            IN /\ docs' = [docs EXCEPT ![d] = EmptyDoc]
               /\ NewDocHandle(d)
               /\ Return(c, Result("create", <<>>, Ok, Some(Len(handles) + 1), call[c].late))
    /\ UNCHANGED <<stopped, task, tasks, tasksLock, stopDone>>
    /\ row' = "none"

\* ------------------------------------------------------------- Repo::find
\* A find that parses the string as given, prefix and all.
id_strWhole(doc_id) == doc_id

\* doc_id.strip_prefix("automerge:").unwrap_or(&doc_id)
id_str(doc_id) == unwrap_or(strip_prefix(doc_id, Prefix), doc_id)

\* The part of find that runs before the future exists: a string that does
\* not parse raises at once.
FindCall(c, s) ==
    /\ pc[c] = "idle"
    /\ IF parse(id_str(s)) = <<>>
       THEN /\ pc' = pc
            /\ call' = call
            /\ ret' = [ret EXCEPT ![c] =
                         Result("find", s, InvalidDocumentId, <<>>, stopDone)]
       ELSE /\ stopDone \/ HandleBudget
            /\ Start(c, "find", [op |-> "find", arg |-> s, id |-> parse(id_str(s))[1]])
    /\ UNCHANGED <<stopped, docs, task, tasks, tasksLock, handles, locks, stopDone>>
    /\ row' = "none"

\* A lookup that answers from the documents it holds although it has stopped.
FindEngineAnyway(c) ==
    /\ pc[c] = "find"
    /\ LET id == call[c].id
       IN IF id \in DocIds /\ docs[id].exists
          THEN /\ NewDocHandle(id)
               /\ Return(c, Result("find", call[c].arg, Ok, Some(Len(handles) + 1), call[c].late))
          ELSE /\ Return(c, Result("find", call[c].arg, Ok, <<>>, call[c].late))
               /\ UNCHANGED <<handles, locks>>
    /\ UNCHANGED <<stopped, docs, task, tasks, tasksLock, stopDone>>
    /\ row' = "none"

\* repo.find(document_id).await and the match on its result.
FindEngine(c) ==
    /\ pc[c] = "find"
    /\ LET id == call[c].id
       IN IF stopped
          THEN /\ Return(c, Result("find", call[c].arg, RepositoryStopped, <<>>, call[c].late))
               /\ UNCHANGED <<handles, locks>>
          ELSE IF id \in DocIds /\ docs[id].exists
          THEN /\ NewDocHandle(id)
               /\ Return(c, Result("find", call[c].arg, Ok, Some(Len(handles) + 1), call[c].late))
          ELSE /\ Return(c, Result("find", call[c].arg, Ok, <<>>, call[c].late))
               /\ UNCHANGED <<handles, locks>>
    /\ UNCHANGED <<stopped, docs, task, tasks, tasksLock, stopDone>>
    /\ row' = "none"

\* --------------------------------------------------- Repo::when_connected
WhenConnectedCall(c) ==
    /\ Start(c, "when_connected", [op |-> "when_connected"])
    /\ UNCHANGED <<stopped, docs, task, tasks, tasksLock, handles, locks, stopDone>>
    /\ row' = "none"

\* repo.when_connected(peer_id).await: resolves once a connection to the peer
\* is up (one of the running connection tasks carries it), or fails when the
\* repository has stopped; until then the caller stays suspended.
WhenConnectedEngine(c) ==
    /\ pc[c] = "when_connected"
    /\ \/ /\ stopped
          /\ Return(c, Result("when_connected", <<>>, RepositoryStopped, <<>>, call[c].late))
       \/ /\ ~stopped
          /\ \E t \in TaskIds : task[t] = "running"
          /\ Return(c, Result("when_connected", <<>>, Ok, <<>>, call[c].late))
    /\ UNCHANGED <<stopped, docs, task, tasks, tasksLock, handles, locks, stopDone>>
    /\ row' = "none"


\* ------------------------------------------------ the document, by automerge
\* doc.get(ROOT, key)
Get(doc, key) == doc.root[key]

\* A put that leaves a key alone when it holds an object.
PutKeepsObject(doc, key, value) ==
    IF doc.root[key].t = "text" THEN doc
    ELSE [doc EXCEPT !.root[key] = [t |-> "str", s |-> value]]

\* tx.put(ROOT, key, value): a scalar string, whatever the key held.
Put(doc, key, value) ==
    [doc EXCEPT !.root[key] = [t |-> "str", s |-> value]]

\* tx.put_object(ROOT, key, ObjType::Text): a new, empty text object.
PutObject(doc, key) ==
    [doc EXCEPT !.nobj = @ + 1,
                !.root[key] = [t |-> "text", obj |-> doc.nobj + 1],
                !.text[doc.nobj + 1] = <<>>]

\* doc.text(obj_id)
TextOf(doc, obj) == doc.text[obj]

\* A splice that deletes behind the inserted text instead of at the index.
SpliceTextBehind(doc, obj, pos, del, ins) ==
    LET old == TextOf(doc, obj)
        index == IF del < 0 THEN pos + del ELSE pos
        count == IF del < 0 THEN 0 - del ELSE del
        new == Concat(Concat(Take(old, index), Drop(old, index)), ins)
    IN IF index < 0 \/ index > Len(old) THEN <<>>
       ELSE Some([doc EXCEPT !.text[obj] =
                    IF count >= Len(new) THEN <<>> ELSE Drop(new, count)])

\* tx.splice_text(obj, pos, del, text), as automerge's transaction runs it:
\* Some(the document after it), or None for an error (InvalidIndex).  A
\* negative del moves the start back by its size (an error when that is before
\* the text's start); the deletion stops at the end of the text; the insertion
\* needs its index inside the text or at its end.
SpliceText(doc, obj, pos, del, ins) ==
    LET old == TextOf(doc, obj)
        index == IF del < 0 THEN pos + del ELSE pos
        count == IF del < 0 THEN 0 - del ELSE del
        stop == IF index + count > Len(old) THEN Len(old) ELSE index + count
    IN IF index < 0 THEN <<>>
       ELSE IF index > Len(old)
       THEN IF ins = <<>> THEN Some(doc) ELSE <<>>
       ELSE Some([doc EXCEPT !.text[obj] =
                    Concat(Concat(Take(old, index), ins), Drop(old, stop))])

\* What the closure handed to with_document does for each operation: the
\* document after it, the error kind or Ok, and the value.  A transaction
\* that fails is rolled back.
Outcome(doc, status, val) == [doc |-> doc, status |-> status, val |-> val]

\* DocHandle::dump: doc.save()
DumpClosure(doc) == Outcome(doc, Ok, Some("bytes"))

\* A set_string that writes the root anew, with its own key only.
SetStringAlone(doc, key, value) ==
    Outcome([doc EXCEPT !.root = [k \in Keys |-> IF k = key THEN [t |-> "str", s |-> value]
                                                 ELSE NoValue]], Ok, <<>>)

\* DocHandle::set_string
SetStringClosure(doc, key, value) == Outcome(Put(doc, key, value), Ok, <<>>)

\* A get_string that reads a text object as a string.
GetStringOfText(doc, key) ==
    Outcome(doc, Ok, IF Get(doc, key).t = "str" THEN Some(Get(doc, key).s)
                     ELSE IF Get(doc, key).t = "text" THEN Some(TextOf(doc, Get(doc, key).obj))
                     ELSE <<>>)

\* DocHandle::get_string: Some(the string) for a scalar string, None for any
\* other value and for no value.
GetStringClosure(doc, key) ==
    Outcome(doc, Ok, IF Get(doc, key).t = "str" THEN Some(Get(doc, key).s) ELSE <<>>)

\* DocHandle::get_keys
GetKeysClosure(doc) == Outcome(doc, Ok, Some({key \in Keys : Get(doc, key).t # "none"}))

\* DocHandle::put_text: a new text object with the value spliced in.
PutTextClosure(doc, key, value) ==
    LET made == PutObject(doc, key)
    IN Outcome(SpliceText(made, made.nobj, 0, 0, value)[1], Ok, Some(made.nobj))

\* DocHandle::get_text: Some(the object) for a text object, else None.
GetTextClosure(doc, key) ==
    Outcome(doc, Ok, IF Get(doc, key).t = "text" THEN Some(Get(doc, key).obj) ELSE <<>>)

\* Text::get
GetClosure(doc, obj) == Outcome(doc, Ok, Some(TextOf(doc, obj)))

\* Text::length
LengthClosure(doc, obj) == Outcome(doc, Ok, Some(Len(TextOf(doc, obj))))

\* A splice that is not rolled back: when it fails, the text has been cut.
SpliceNoRollback(doc, obj, pos, delete, insert) ==
    LET r == SpliceText(doc, obj, pos, delete, insert)
        cut == SpliceText(doc, obj, 0, Len(TextOf(doc, obj)), <<>>)
    IN IF r = <<>> THEN Outcome(cut[1], DocumentOperationFailure, <<>>)
                   ELSE Outcome(r[1], Ok, <<>>)

\* Text::splice
SpliceClosure(doc, obj, pos, delete, insert) ==
    LET r == SpliceText(doc, obj, pos, delete, insert)
    IN IF r = <<>> THEN Outcome(doc, DocumentOperationFailure, <<>>)
                   ELSE Outcome(r[1], Ok, <<>>)

\* An append that splices at the length the text had when it was made.
AppendAtFirstLength(doc, obj, text) ==
    LET len == IF Len(TextOf(doc, obj)) > 1 THEN 1 ELSE Len(TextOf(doc, obj))
        r == SpliceText(doc, obj, len, 0, text)
    IN Outcome(r[1], Ok, <<>>)

\* Text::append: the length is read and the text spliced in one closure.
AppendClosure(doc, obj, text) ==
    LET len == Len(TextOf(doc, obj))
        r == SpliceText(doc, obj, len, 0, text)
    IN IF r = <<>> THEN Outcome(doc, DocumentOperationFailure, <<>>)
                   ELSE Outcome(r[1], Ok, <<>>)

Closure(k, obj, doc) ==
    CASE k.op = "dump" -> DumpClosure(doc)
      [] k.op = "set_string" -> SetStringClosure(doc, k.key, k.value)
      [] k.op = "get_string" -> GetStringClosure(doc, k.key)
      [] k.op = "get_keys" -> GetKeysClosure(doc)
      [] k.op = "put_text" -> PutTextClosure(doc, k.key, k.value)
      [] k.op = "get_text" -> GetTextClosure(doc, k.key)
      [] k.op = "get" -> GetClosure(doc, obj)
      [] k.op = "length" -> LengthClosure(doc, obj)
      [] k.op = "splice" -> SpliceClosure(doc, obj, k.pos, k.delete, k.insert)
      [] k.op = "append" -> AppendClosure(doc, obj, k.text)

\* ------------------------------------------- DocHandle and Text operations
\* Every operation is `handle.lock().await`, one with_document call, and the
\* end of the future, where the guard is dropped.
GuardOf(h) == handles[h].inner
HandlesOf(kind) == {h \in 1..Len(handles) : handles[h].kind = kind}

\* A Text whose object some key of the document still holds (and any DocHandle).
Bound(h) ==
    handles[h].kind = "text" =>
        \E k \in Keys : Get(docs[handles[h].document_id], k)
                            = [t |-> "text", obj |-> handles[h].obj_id]

\* Another caller's operation on the handle is in flight.
Busy(c, h) ==
    \E d \in Callers \ {c} :
        pc[d] \in {"lock", "with_document", "return"} /\ call[d].h = h

\* The operation is called: its future asks for the handle's mutex and waits
\* in the mutex's FIFO queue.  (`bound`, whether the Text's field held its
\* object when the call was made, and `busy`, whether another operation on
\* the handle was in flight then, are history kept for the properties.)
OpCall(c, h, what) ==
    /\ Start(c, "lock", what @@ [h |-> h, bound |-> Bound(h), busy |-> Busy(c, h)])
    /\ locks' = [locks EXCEPT ![GuardOf(h)].waiters = Append(@, c)]
    /\ UNCHANGED <<stopped, docs, task, tasks, tasksLock, handles, stopDone>>
    /\ row' = "none"

\* One guard for every handle: a lock that is taken only when no lock is held.
MayAcquireAlone(c, l) ==
    /\ \A m \in 1..Len(locks) : locks[m].holder = {}
    /\ Head(locks[l].waiters) = c

\* A lock that, when free, hands itself to any of its waiters.
MayAcquireAny(c, l) ==
    locks[l].holder = {} /\ \E i \in 1..Len(locks[l].waiters) : locks[l].waiters[i] = c

\* A lock that hands itself to the first waiter without looking at its holder.
MayAcquireHeld(c, l) == Head(locks[l].waiters) = c

\* handle.lock().await returns: the mutex is free and this future is first.
MayAcquire(c, l) == locks[l].holder = {} /\ Head(locks[l].waiters) = c

Acquire(c) ==
    /\ pc[c] = "lock"
    /\ MayAcquire(c, GuardOf(call[c].h))
    /\ locks' = [locks EXCEPT ![GuardOf(call[c].h)] =
                    [holder |-> {c}, waiters |-> Tail(@.waiters)]]
    /\ pc' = [pc EXCEPT ![c] = "with_document"]
    /\ UNCHANGED <<stopped, docs, task, tasks, tasksLock, handles, call, ret, stopDone>>
    /\ row' = "none"

\* handle.with_document(|doc| ...): the closure runs on the document.
WithDocument(c) ==
    /\ pc[c] = "with_document"
    /\ LET h == handles[call[c].h]
           out == Closure(call[c], IF h.kind = "text" THEN h.obj_id ELSE 0,
                          docs[h.document_id])
       IN /\ docs' = [docs EXCEPT ![h.document_id] = out.doc]
          /\ call' = [call EXCEPT ![c] = @ @@ [status |-> out.status, val |-> out.val]]
    /\ pc' = [pc EXCEPT ![c] = "return"]
    /\ UNCHANGED <<stopped, task, tasks, tasksLock, handles, locks, ret, stopDone>>
    /\ row' = "none"

\* The future ends: put_text and get_text wrap the object they got in a new
\* Text, the result is returned and the guard is dropped.
OpReturn(c) ==
    /\ pc[c] = "return"
    /\ LET k == call[c]
           l == GuardOf(k.h)
           free == [locks EXCEPT ![l].holder = {}]
       IN IF k.op \in {"put_text", "get_text"} /\ k.status = Ok /\ k.val # <<>>
          THEN /\ handles' = Append(handles,
                     Text(handles[k.h].document_id, k.val[1], Len(locks) + 1, k.h))
               /\ locks' = Append(free, NewLock)
               /\ Return(c, Result(k.op, <<>>, Ok, Some(Len(handles) + 1), k.late))
          ELSE /\ locks' = free
               /\ handles' = handles
               /\ Return(c, Result(k.op, <<>>, k.status, k.val, k.late))
    /\ UNCHANGED <<stopped, docs, task, tasks, tasksLock, stopDone>>
    /\ row' = "none"


\* Model bounds on what the calls may add to a document.
ObjBudget(h) ==
    docs[handles[h].document_id].nobj
      + Cardinality({c \in Callers : call[c].op = "put_text"
                       /\ handles[call[c].h].document_id = handles[h].document_id})
      < MaxObjs
LenBudget(h, ins) ==
    Len(TextOf(docs[handles[h].document_id], handles[h].obj_id)) + Len(ins) <= MaxLen

\* DocHandle::dump
Dump(c, h) ==
    /\ h \in HandlesOf("doc")
    /\ OpCall(c, h, [op |-> "dump"])

\* DocHandle::set_string
SetString(c, h, key, value) ==
    /\ h \in HandlesOf("doc")
    /\ OpCall(c, h, [op |-> "set_string", key |-> key, value |-> value])

\* DocHandle::get_string
GetString(c, h, key) ==
    /\ h \in HandlesOf("doc")
    /\ OpCall(c, h, [op |-> "get_string", key |-> key])

\* DocHandle::get_keys
GetKeys(c, h) ==
    /\ h \in HandlesOf("doc")
    /\ OpCall(c, h, [op |-> "get_keys"])

\* DocHandle::put_text
PutText(c, h, key, value) ==
    /\ h \in HandlesOf("doc")
    /\ ObjBudget(h)
    /\ OpCall(c, h, [op |-> "put_text", key |-> key, value |-> value])

\* DocHandle::get_text
GetText(c, h, key) ==
    /\ h \in HandlesOf("doc")
    /\ OpCall(c, h, [op |-> "get_text", key |-> key])

\* Text::get
TextGet(c, h) ==
    /\ h \in HandlesOf("text")
    /\ OpCall(c, h, [op |-> "get"])

\* Text::length
TextLength(c, h) ==
    /\ h \in HandlesOf("text")
    /\ OpCall(c, h, [op |-> "length"])

\* Text::splice, as Rust calls it.  (`called`, the Python method and the count
\* it was given, is history kept for the properties.)
splice(c, h, pos, delete, insert, called) ==
    /\ h \in HandlesOf("text")
    /\ LenBudget(h, insert)
    /\ OpCall(c, h, [op |-> "splice", pos |-> pos, delete |-> delete, insert |-> insert,
                     called |-> called])

\* Text::splice, as Python calls it: `delete: isize` takes an integer of that
\* range, and any other raises before the method runs.
TextSplice(c, h, pos, delete, insert) ==
    IF delete \in Isize
    THEN splice(c, h, pos, delete, insert, [method |-> "splice", count |-> delete])
    ELSE /\ h \in HandlesOf("text")
         /\ pc[c] = "idle"
         /\ ret' = [ret EXCEPT ![c] = Result("splice", <<>>, OverflowError, <<>>, stopDone)]
         /\ UNCHANGED <<stopped, docs, task, tasks, tasksLock, handles, locks, pc, call,
                        stopDone>>
         /\ row' = "none"

\* Text::insert: self.splice(py, pos, 0, text)
TextInsert(c, h, pos, text) ==
    splice(c, h, pos, 0, text, [method |-> "insert", count |-> 0])

\* Text::delete: self.splice(py, pos, length as isize, String::new())
TextDelete(c, h, pos, length) ==
    splice(c, h, pos, as_isize(length), <<>>, [method |-> "delete", count |-> length])

\* Text::append
TextAppend(c, h, text) ==
    /\ h \in HandlesOf("text")
    /\ LenBudget(h, text)
    /\ OpCall(c, h, [op |-> "append", text |-> text])

\* ------------------------------------------------------ the specifications
Positions == 0..MaxLen
Handles == 1..(MaxHandles + MaxTexts)

\* Repo::connect_websocket, Repo::create, Repo::find, Repo::when_connected
\* and the connection tasks.
RepoNext ==
    \/ \E c \in Callers, u \in Urls : ConnectCall(c, u)
    \/ \E c \in Callers : ConnectTransport(c)
    \/ \E c \in Callers : ConnectSpawn(c)
    \/ \E c \in Callers : ConnectPush(c)
    \/ \E c \in Callers : ConnectReturn(c)
    \/ \E t \in TaskIds : TaskFinish(t)
    \/ \E c \in Callers : CreateCall(c)
    \/ \E c \in Callers : CreateEngine(c)
    \/ \E c \in Callers, s \in FindInputs : FindCall(c, s)
    \/ \E c \in Callers : FindEngine(c)
    \/ \E c \in Callers : WhenConnectedCall(c)
    \/ \E c \in Callers : WhenConnectedEngine(c)

\* Repo::stop
StopNext ==
    \/ \E c \in Callers : StopLock(c)
    \/ \E c \in Callers : StopAbort(c)
    \/ \E c \in Callers : StopUnlock(c)
    \/ \E c \in Callers : StopHalt(c)
    \/ \E c \in Callers : StopReturn(c)

\* The field operations of DocHandle, called with keys of KS and values of VS,
\* as long as fewer than n handles are made.
FieldNext(KS, VS, n) ==
    \/ \E c \in Callers, h \in Handles : Dump(c, h)
    \/ \E c \in Callers, h \in Handles, k \in KS, v \in VS : SetString(c, h, k, v)
    \/ \E c \in Callers, h \in Handles, k \in KS : GetString(c, h, k)
    \/ \E c \in Callers, h \in Handles : GetKeys(c, h)
    \/ \E c \in Callers, h \in Handles, k \in KS, v \in VS : Budget(n) /\ PutText(c, h, k, v)
    \/ \E c \in Callers, h \in Handles, k \in KS : Budget(n) /\ GetText(c, h, k)

\* The operations of Text, called by the callers of CS with positions of PS,
\* delete counts of DS (splice) and NS (delete) and strings of VS.
TextNext(CS, PS, DS, NS, VS) ==
    \/ \E c \in CS, h \in Handles : TextGet(c, h)
    \/ \E c \in CS, h \in Handles : TextLength(c, h)
    \/ \E c \in CS, h \in Handles, p \in PS, d \in DS, v \in VS \cup {<<>>} :
          TextSplice(c, h, p, d, v)
    \/ \E c \in CS, h \in Handles, p \in PS, v \in VS : TextInsert(c, h, p, v)
    \/ \E c \in CS, h \in Handles, p \in PS, n \in NS : TextDelete(c, h, p, n)
    \/ \E c \in CS, h \in Handles, v \in VS : TextAppend(c, h, v)

\* The steps of an operation that was called.
GuardNext ==
    \/ \E c \in Callers : Acquire(c)
    \/ \E c \in Callers : WithDocument(c)
    \/ \E c \in Callers : OpReturn(c)

\* Every DocHandle and Text operation, on one key and with one value.
OneKey == {"a"}
OneValue == {<<"x">>}
HandleNext ==
    \/ FieldNext(OneKey, OneValue, MaxHandles)
    \/ TextNext(Callers, {0}, {0}, {1}, OneValue)
    \/ GuardNext

\* find(handle.url): the lookup of a document some handle already names.
FindUrl(c, h) == h \in HandlesOf("doc") /\ FindCall(c, url(handles[h]))

\* A repository that is never connected: documents are created, looked up by
\* their url and worked on through their handles, and the repository is
\* stopped (with no task registered, stop's loop has nothing to abort).
LocalNext ==
    \/ HandleNext
    \/ \E c \in Callers : CreateCall(c)
    \/ \E c \in Callers : CreateEngine(c)
    \/ \E c \in Callers, h \in Handles : FindUrl(c, h)
    \/ \E c \in Callers : FindEngine(c)
    \/ \E c \in Callers : StopLock(c)
    \/ \E c \in Callers : StopUnlock(c)
    \/ \E c \in Callers : StopHalt(c)
    \/ \E c \in Callers : StopReturn(c)

\* The fields of one document, worked on through its DocHandle: every key and
\* value, by concurrent callers.
NoDocument ==
    /\ \A d \in DocIds : ~docs[d].exists
    /\ \A c \in Callers : call[c].op # "create"
FieldsNext ==
    \/ \E c \in Callers : NoDocument /\ CreateCall(c)
    \/ \E c \in Callers : CreateEngine(c)
    \/ FieldNext(Keys, Values, 1 + MaxTexts)
    \/ GuardNext

\* The text of one field, made through the DocHandle and edited by one caller
\* through the Text got from it, while the field is also set to a string.  The
\* delete counts: backwards, none, one (more than is left, at the text's end),
\* and one that no isize holds.
Deletes == {0 - 1, 0, 1}
Counts == {1, 2^WordBits - 1}
TextsNext ==
    \/ \E c \in Callers : CreateCall(c)
    \/ \E c \in Callers : CreateEngine(c)
    \/ \E c \in Callers, h \in Handles, k \in OneKey, v \in OneValue : SetString(c, h, k, v)
    \/ \E c \in Callers, h \in Handles, k \in OneKey, v \in OneValue :
          Budget(MaxHandles) /\ PutText(c, h, k, v)
    \/ TextNext({1}, Positions, Deletes \cup {2^WordBits - 1}, Counts, Values)
    \/ GuardNext

\* One text object behind several Texts (put_text's and get_text's), appended
\* to and read by concurrent callers.
SharedTextNext ==
    \/ \E c \in Callers : CreateCall(c)
    \/ \E c \in Callers : CreateEngine(c)
    \/ \E c \in Callers, h \in Handles, k \in OneKey, v \in OneValue :
          Budget(1 + MaxTexts) /\ PutText(c, h, k, v)
    \/ \E c \in Callers, h \in Handles, k \in OneKey :
          Budget(1 + MaxTexts) /\ GetText(c, h, k)
    \/ \E c \in Callers, h \in Handles : TextGet(c, h)
    \/ \E c \in Callers, h \in Handles : TextLength(c, h)
    \/ \E c \in Callers, h \in Handles, v \in Values : TextAppend(c, h, v)
    \/ GuardNext

\* Every guard at work: connections and stop on the task registry's lock,
\* operations on a DocHandle's and a Text's mutex.
GuardsNext ==
    \/ \E c \in Callers : ConnectCall(c, "ws://localhost:3030")
    \/ \E c \in Callers : ConnectTransport(c)
    \/ \E c \in Callers : ConnectSpawn(c)
    \/ \E c \in Callers : ConnectPush(c)
    \/ \E c \in Callers : ConnectReturn(c)
    \/ \E t \in TaskIds : TaskFinish(t)
    \/ StopNext
    \/ \E c \in Callers : CreateCall(c)
    \/ \E c \in Callers : CreateEngine(c)
    \/ \E c \in Callers, h \in Handles, k \in OneKey, v \in OneValue :
          Budget(MaxHandles) /\ PutText(c, h, k, v)
    \/ \E c \in Callers, h \in Handles : GetKeys(c, h)
    \/ \E c \in Callers, h \in Handles, v \in OneValue : TextAppend(c, h, v)
    \/ GuardNext

\* The queue of one DocHandle's mutex: concurrent field operations on the
\* handle of one document.
QueueNext ==
    \/ \E c \in Callers : CreateCall(c)
    \/ \E c \in Callers : CreateEngine(c)
    \/ \E c \in Callers, h \in Handles, k \in OneKey, v \in Values : SetString(c, h, k, v)
    \/ \E c \in Callers, h \in Handles, k \in OneKey : GetString(c, h, k)
    \/ \E c \in Callers, h \in Handles : GetKeys(c, h)
    \/ GuardNext

\* Several documents, each worked on through its DocHandle and the Texts made
\* through it.
DocsNext ==
    \/ \E c \in Callers : CreateCall(c)
    \/ \E c \in Callers : CreateEngine(c)
    \/ \E c \in Callers, h \in Handles, k \in OneKey, v \in Values : SetString(c, h, k, v)
    \/ \E c \in Callers, h \in Handles, k \in OneKey : GetString(c, h, k)
    \/ \E c \in Callers, h \in Handles, k \in OneKey, v \in OneValue :
          Budget(MaxHandles + MaxTexts) /\ PutText(c, h, k, v)
    \/ \E c \in Callers, h \in Handles, v \in OneValue : TextAppend(c, h, v)
    \/ GuardNext

\* The whole program.
Next == RepoNext \/ StopNext \/ HandleNext

Spec == Init /\ [][Next]_vars

\* The repository's life cycle: connections, lookup, creation and shutdown,
\* with the handles handed out but not worked on.
RepoSpec == Init /\ [][RepoNext \/ StopNext]_vars

\* The handles of a repository that is never connected.
HandleSpec == Init /\ [][LocalNext]_vars

\* One document's fields, one field's text, and one text shared by Texts.
FieldSpec == Init /\ [][FieldsNext]_vars
TextSpec == Init /\ [][TextsNext]_vars
SharedTextSpec == Init /\ [][SharedTextNext]_vars

\* Handle operations, connect and stop together.
GuardSpec == Init /\ [][GuardsNext]_vars

\* Field and text operations on several documents.
DocsSpec == Init /\ [][DocsNext]_vars

\* The runtime polls every future that can move: a future that can take the
\* mutex takes it, and a holder runs its closure and ends.
QueueSpec ==
    /\ Init /\ [][QueueNext]_vars
    /\ \A c \in Callers :
          WF_vars(Acquire(c)) /\ WF_vars(WithDocument(c)) /\ WF_vars(OpReturn(c))


\* ------------------------------------------------------------- properties
\* A caller is inside an operation's critical section: its future has the
\* handle's guard and has not dropped it yet.
InCS(c) == pc[c] \in {"with_document", "return"}
HandleOps ==
    {"dump", "set_string", "get_string", "get_keys", "put_text", "get_text",
     "get", "length", "splice", "append"}

\* C1: for one DocHandle, at most one of its operations is inside its read or
\* transaction at a time: an operation touches the document only while it
\* holds the handle's guard, and it holds the guard from before the
\* with_document call until its future ends.
C1_OneOperationPerHandle ==
    /\ \A c \in Callers :
          InCS(c) => locks[GuardOf(call[c].h)].holder = {c}
    /\ \A c \in Callers :
          pc[c] = "lock" => locks[GuardOf(call[c].h)].holder # {c}
    /\ \A c1, c2 \in Callers :
          (c1 # c2 /\ InCS(c1) /\ InCS(c2)) => call[c1].h # call[c2].h

\* Two operations were called on one DocHandle: one is in its critical
\* section and the other waits for the guard.
C1_Witness ==
    \E c1, c2 \in Callers :
        /\ c1 # c2
        /\ InCS(c1) /\ pc[c2] = "lock"
        /\ call[c1].h = call[c2].h
        /\ handles[call[c1].h].kind = "doc"

\* C2: a Text uses the guard of the DocHandle it came from: while a Text
\* operation is in its critical section, no operation of the parent DocHandle
\* and no operation of another Text of the same document is in its own.
C2_TextSharesParentGuard ==
    \A c1, c2 \in Callers :
        (c1 # c2 /\ InCS(c1) /\ InCS(c2) /\ handles[call[c1].h].kind = "text")
          => LET t == handles[call[c1].h]
                 o == handles[call[c2].h]
             IN /\ call[c2].h # t.parent
                /\ ~(o.kind = "text" /\ o.document_id = t.document_id)

\* C3: among all the DocHandles of one DocumentId, at most one operation is in
\* its critical section at a time.
C3_OneOperationPerDocument ==
    \A c1, c2 \in Callers :
        (c1 # c2 /\ InCS(c1) /\ InCS(c2)
           /\ handles[call[c1].h].kind = "doc" /\ handles[call[c2].h].kind = "doc")
          => handles[call[c1].h].document_id # handles[call[c2].h].document_id

\* A stop call returns in this step.
StopReturns(c) == pc[c] = "halted" /\ pc'[c] = "idle"

\* The tasks that were in the registry when a stop call locked it.
Registered(c) == {call[c].registered[i] : i \in 1..Len(call[c].registered)}

\* C4: stop aborts every task that is in the registry when it runs, and only
\* after all of them are aborted tells the engine to halt; when stop returns
\* the registry is empty; and stop returns without error (also when no
\* connection was ever made).
C4_StopAbortsThenHalts ==
    /\ [](\A c \in Callers :
            pc[c] \in {"halt", "halted"} => \A t \in Registered(c) : task[t] # "running")
    /\ [][(~stopped /\ stopped') => \E c \in Callers : pc[c] = "halt" /\ pc'[c] = "halted"]_vars
    /\ [][\A c \in Callers :
            StopReturns(c) => (tasks' = <<>> /\ ret'[c].status = Ok)]_vars

\* C5: two stop calls in a row (one after the other, with no other call in
\* flight from the start of the first to the return of the second) both return
\* without error, and the second leaves the state the first left: engine
\* halted, registry empty, no running task.
C5_StopTwiceInARow ==
    /\ [](row \in {"between", "twice"} =>
            /\ stopped /\ tasks = <<>> /\ tasksLock = {}
            /\ \A t \in TaskIds : task[t] # "running"
            /\ \E c \in Callers : ret[c].op = "stop" /\ ret[c].status = Ok)
    /\ [][(row \in {"between", "second"} /\ row' \in {"second", "twice"}) =>
            /\ stopped' = stopped /\ tasks' = tasks /\ task' = task
            /\ docs' = docs /\ handles' = handles /\ locks' = locks
            /\ \A c \in Callers : StopReturns(c) => ret'[c].status = Ok]_vars

\* Two stop calls in a row have returned, and the first had tasks to abort.
C5_Witness ==
    /\ row = "twice"
    /\ \E t \in TaskIds : task[t] = "aborted"

\* C6: whatever the interleaving of connect and stop calls, when a stop call
\* returns no task spawned by a connect is still running: each is finished or
\* aborted.
C6_NoTaskLeak ==
    [][\A c \in Callers :
         StopReturns(c) => \A t \in TaskIds : task'[t] # "running"]_vars

\* A string of the identifier grammar, bare or behind one url prefix.
IsIdentifier(s) == Len(s) >= 1 /\ s = to_string(Len(s))
WellFormed(s) ==
    \/ IsIdentifier(s)
    \/ Len(s) > Len(Prefix) /\ Take(s, Len(Prefix)) = Prefix /\ IsIdentifier(Drop(s, Len(Prefix)))

RepoOps == {"create", "find", "when_connected"}

\* C7: a create, a find of a well-formed identifier or a when_connected that
\* is called after stop has returned fails with RepositoryStopped; it returns
\* no handle, and no handle or document is made once a stop has returned.
C7_RepoOpsFailAfterStop ==
    /\ [](\A c \in Callers :
            (ret[c].late /\ ret[c].op \in RepoOps
               /\ (ret[c].op = "find" => WellFormed(ret[c].arg)))
              => (ret[c].status = RepositoryStopped /\ ret[c].val = <<>>))
    /\ [][stopDone => (handles' = handles /\ docs' = docs)]_vars

\* After a stop returned, a create and a find of a document's url were called
\* and have failed with RepositoryStopped.
C7_Witness ==
    \E c1, c2 \in Callers :
        /\ ret[c1].late /\ ret[c1].op = "create" /\ ret[c1].status = RepositoryStopped
        /\ ret[c2].late /\ ret[c2].op = "find" /\ ret[c2].status = RepositoryStopped
        /\ \E h \in HandlesOf("doc") : ret[c2].arg = url(handles[h])

\* C8: an operation on a DocHandle or Text that is called after stop has
\* returned fails with RepositoryStopped, and neither reads nor changes the
\* document.
C8_HandleOpsFailAfterStop ==
    /\ \A c \in Callers :
          (ret[c].late /\ ret[c].op \in HandleOps) => ret[c].status = RepositoryStopped
    /\ \A c \in Callers :
          (call[c].op \in HandleOps /\ call[c].late) => pc[c] \notin {"with_document", "return"}


\* A connect call returns in this step.
ConnectReturns(c) == ret'[c] # ret[c] /\ ret'[c].op = "connect"

\* C9: connect registers a task exactly when it succeeds.  A connect that
\* fails (InvalidEndpoint, ConnectionFailure) has spawned nothing and leaves
\* the registry as it is; a connect that succeeds has brought the transport
\* up, then spawned one task, then pushed it into the registry, and returns
\* only after that.  Nothing else spawns a task or adds to the registry.
C9_ConnectRegistersOnSuccess ==
    [][/\ \A c \in Callers :
            /\ (ConnectReturns(c) /\ ret'[c].status # Ok) =>
                  /\ ret'[c].status \in {InvalidEndpoint, ConnectionFailure}
                  /\ pc[c] \in {"idle", "connecting"}
                  /\ task' = task /\ tasks' = tasks
            /\ (ConnectReturns(c) /\ ret'[c].status = Ok) =>
                  /\ pc[c] = "sleep" /\ call[c].pushed
                  /\ task' = task /\ tasks' = tasks
            /\ (pc[c] # "spawned" /\ pc'[c] = "spawned") =>
                  /\ pc[c] = "connected"
                  /\ \E t \in TaskIds :
                        /\ task[t] = "none"
                        /\ task' = [task EXCEPT ![t] = "running"]
                        /\ call'[c].handle = t
                  /\ tasks' = tasks
            /\ (pc[c] = "spawned" /\ pc'[c] # "spawned") =>
                  /\ pc'[c] = "sleep"
                  /\ tasks' = Append(tasks, call[c].handle)
                  /\ task' = task
       /\ (\E t \in TaskIds : task[t] = "none" /\ task'[t] # "none") =>
             \E c \in Callers : pc[c] = "connected" /\ pc'[c] = "spawned"
       /\ Len(tasks') > Len(tasks) =>
             \E c \in Callers : pc[c] = "spawned" /\ pc'[c] = "sleep"]_vars

\* One connect has succeeded, its task is in the registry, and another has
\* failed to bring the transport up.
C9_Witness ==
    \E c1, c2 \in Callers :
        /\ ret[c1].op = "connect" /\ ret[c1].status = Ok
        /\ ret[c2].op = "connect" /\ ret[c2].status = ConnectionFailure
        /\ Len(tasks) = 1 /\ task[tasks[1]] = "running"

\* A find call returns in this step.
FindReturns(c) == ret'[c] # ret[c] /\ ret'[c].op = "find"

\* C10: while the repository runs, find of the url of a created document, and
\* find of its document_id, return a handle with the same document_id; find
\* of a string that is no identifier once one `automerge:` prefix is stripped
\* fails with InvalidDocumentId before the engine is asked, and no other find
\* fails that way.
C10_IdentifierRoundTrip ==
    [][\A c \in Callers :
         FindReturns(c) =>
            /\ \A h \in HandlesOf("doc") :
                  (~stopped /\ ret'[c].arg \in {url(handles[h]), document_id(handles[h])})
                    => /\ ret'[c].status = Ok
                       /\ ret'[c].val # <<>>
                       /\ document_id(handles'[ret'[c].val[1]]) = document_id(handles[h])
            /\ ~WellFormed(ret'[c].arg) =>
                  (ret'[c].status = InvalidDocumentId /\ pc[c] = "idle")
            /\ WellFormed(ret'[c].arg) =>
                  (ret'[c].status # InvalidDocumentId /\ pc[c] = "find")]_vars

\* find of a created document's url has returned a second handle of that
\* document, and a find of a string with a doubled prefix has failed.
C10_Witness ==
    \E c1, c2 \in Callers :
        /\ ret[c1].op = "find" /\ ret[c1].status = Ok /\ ret[c1].val # <<>>
        /\ ret[c1].arg = url(handles[1])
        /\ handles[ret[c1].val[1]].document_id = handles[1].document_id
        /\ ret[c1].val[1] # 1
        /\ ret[c2].op = "find" /\ ret[c2].status = InvalidDocumentId
        /\ ret[c2].arg = Concat(Prefix, Concat(Prefix, to_string(1)))

\* The closure of caller c's operation runs on the document in this step.
Runs(c, op) == pc[c] = "with_document" /\ pc'[c] = "return" /\ call[c].op = op

\* The operation of caller c returns in this step.
Returns(c, op) == pc[c] = "return" /\ pc'[c] = "idle" /\ call[c].op = op

\* The document a caller's operation works on.
DocOf(c) == handles[call[c].h].document_id

\* C11: set_string(k, s) leaves the string s at k whatever k held (nothing,
\* another string, a text object); nothing but a set_string or put_text on k
\* changes what k holds; and get_string(k) returns the string k holds.  So a
\* get_string(k) after a set_string(k, s) with no write to k in between
\* returns s.
C11_StringRoundTrip ==
    [][/\ \A c \in Callers :
            /\ Runs(c, "set_string") =>
                  /\ Get(docs'[DocOf(c)], call[c].key) = [t |-> "str", s |-> call[c].value]
                  /\ call'[c].status = Ok
            /\ Runs(c, "get_string") =>
                  \A s \in Values :
                      Get(docs[DocOf(c)], call[c].key) = [t |-> "str", s |-> s]
                        => (call'[c].status = Ok /\ call'[c].val = Some(s))
            /\ Returns(c, "get_string") =>
                  (ret'[c].status = call[c].status /\ ret'[c].val = call[c].val)
       /\ \A d \in DocIds, k \in Keys :
            (docs[d].exists /\ Get(docs'[d], k) # Get(docs[d], k)) =>
                \E c \in Callers :
                    /\ Runs(c, "set_string") \/ Runs(c, "put_text")
                    /\ DocOf(c) = d /\ call[c].key = k]_vars

\* Key "a" held a text object and was overwritten by set_string("a", "y"),
\* key "b" was never written, and a get_string has returned "y".
C11_Witness ==
    /\ docs[1].exists /\ docs[1].nobj = 1
    /\ Get(docs[1], "a") = [t |-> "str", s |-> <<"y">>]
    /\ Get(docs[1], "b") = NoValue
    /\ \E c \in Callers : ret[c].op = "get_string" /\ ret[c].val = Some(<<"y">>)

\* C12: get_string(k) returns None, and no error, when k holds nothing or a
\* text object.  put_text(k, v) leaves a text object at k, so (by C11's frame)
\* k holds a text object exactly when the last write to k was a put_text.
\* get_text(k) finds an object exactly when k holds a text object: it then
\* returns a Text bound to that object, and None when k holds nothing or a
\* string.
C12_SilentTypeMismatch ==
    [][\A c \in Callers :
         /\ Runs(c, "get_string") =>
               (Get(docs[DocOf(c)], call[c].key).t \in {"none", "text"}
                  => (call'[c].status = Ok /\ call'[c].val = <<>>))
         /\ Returns(c, "get_string") =>
               (ret'[c].status = call[c].status /\ ret'[c].val = call[c].val)
         /\ Runs(c, "put_text") => Get(docs'[DocOf(c)], call[c].key).t = "text"
         /\ Runs(c, "get_text") =>
               /\ call'[c].status = Ok
               /\ IF Get(docs[DocOf(c)], call[c].key).t = "text"
                  THEN call'[c].val = Some(Get(docs[DocOf(c)], call[c].key).obj)
                  ELSE call'[c].val = <<>>
         /\ Returns(c, "get_text") =>
               /\ ret'[c].status = Ok
               /\ IF call[c].val = <<>>
                  THEN ret'[c].val = <<>> /\ handles' = handles
                  ELSE /\ ret'[c].val = Some(Len(handles'))
                       /\ handles'[Len(handles')].kind = "text"
                       /\ handles'[Len(handles')].obj_id = call[c].val[1]]_vars

\* Key "a" holds a text object and key "b" a string; a get_string has returned
\* None and a get_text has returned a Text.
C12_Witness ==
    /\ docs[1].exists
    /\ Get(docs[1], "a").t = "text" /\ Get(docs[1], "b").t = "str"
    /\ \E c1, c2 \in Callers :
          /\ ret[c1].op = "get_string" /\ ret[c1].status = Ok /\ ret[c1].val = <<>>
          /\ ret[c2].op = "get_text" /\ ret[c2].status = Ok /\ ret[c2].val # <<>>
          /\ handles[ret[c2].val[1]].kind = "text"

\* The text object a caller's Text operation works on, and its content.
ObjOf(c) == handles[call[c].h].obj_id
TextBefore(c) == TextOf(docs[DocOf(c)], ObjOf(c))
TextAfter(c) == TextOf(docs'[DocOf(c)], ObjOf(c))

\* A position and delete count inside the text.
ValidSplice(c) ==
    /\ call[c].pos <= Len(TextBefore(c))
    /\ 0 <= call[c].delete
    /\ call[c].delete <= Len(TextBefore(c)) - call[c].pos

\* C13: a splice with 0 <= pos <= length and 0 <= deleteCount <= length - pos
\* succeeds; the text after it is the old text up to pos, then insertText, then
\* the old text from pos + deleteCount on; its length is the old length minus
\* deleteCount plus the length of insertText; and length() and get() return
\* the length and the content of the text.
C13_SpliceLaws ==
    [][\A c \in Callers :
         /\ (Runs(c, "splice") /\ call[c].called.method = "splice" /\ ValidSplice(c)) =>
               LET old == TextBefore(c)
                   new == TextAfter(c)
                   pos == call[c].pos
                   del == call[c].delete
                   ins == call[c].insert
               IN /\ call'[c].status = Ok
                  /\ Len(new) = Len(old) - del + Len(ins)
                  /\ \A i \in 1..pos : new[i] = old[i]
                  /\ \A i \in 1..Len(ins) : new[pos + i] = ins[i]
                  /\ \A i \in (pos + del + 1)..Len(old) : new[i - del + Len(ins)] = old[i]
         /\ Runs(c, "length") =>
               (call'[c].status = Ok /\ call'[c].val = Some(Len(TextBefore(c))))
         /\ Runs(c, "get") =>
               (call'[c].status = Ok /\ call'[c].val = Some(TextBefore(c)))
         /\ (Returns(c, "splice") \/ Returns(c, "length") \/ Returns(c, "get")) =>
               (ret'[c].status = call[c].status /\ ret'[c].val = call[c].val)]_vars

\* splice(1, 0, "y") has put "y" into the middle of "xx".
C13_Witness ==
    \E c \in Callers :
        /\ pc[c] = "return" /\ call[c].op = "splice" /\ call[c].called.method = "splice"
        /\ call[c].pos = 1 /\ call[c].delete = 0 /\ call[c].insert = <<"y">>
        /\ call[c].status = Ok
        /\ TextBefore(c) = <<"x", "y", "x">>

\* C14: a splice (with a delete count that is not negative) whose position is
\* behind the text's end, or whose delete count is more than the text holds
\* from the position on, fails with DocumentOperationFailure.
C14_OutOfRangeRejected ==
    [][\A c \in Callers :
         (/\ Runs(c, "splice") /\ call[c].called.method = "splice"
          /\ call[c].delete >= 0
          /\ \/ call[c].pos > Len(TextBefore(c))
             \/ call[c].delete > Len(TextBefore(c)) - call[c].pos)
           => call'[c].status = DocumentOperationFailure]_vars

\* What splice(pos, delete, insert), called from Python, does to a document:
\* the closure's outcome, or OverflowError for a delete that is no isize.
SpliceOutcome(doc, obj, pos, delete, insert) ==
    IF delete \in Isize THEN SpliceClosure(doc, obj, pos, delete, insert)
    ELSE Outcome(doc, OverflowError, <<>>)

\* What a caller's closure does in this step: the document after it, success
\* or failure (of whatever kind), and the value.
Does(c, out) ==
    /\ docs'[DocOf(c)] = out.doc
    /\ (call'[c].status = Ok) = (out.status = Ok)
    /\ call'[c].val = out.val

\* C15: insert(pos, text) does what splice(pos, 0, text) does, delete(pos,
\* count) what splice(pos, count, "") does, for every count a usize holds, and
\* append(text) what splice(length(), 0, text) does: the same outcome and the
\* same text afterwards.
C15_ConvenienceAreSplices ==
    [][\A c \in Callers :
         LET doc == docs[DocOf(c)]
         IN /\ (Runs(c, "splice") /\ call[c].called.method = "insert") =>
                  Does(c, SpliceOutcome(doc, ObjOf(c), call[c].pos, 0, call[c].insert))
            /\ (Runs(c, "splice") /\ call[c].called.method = "delete") =>
                  Does(c, SpliceOutcome(doc, ObjOf(c), call[c].pos, call[c].called.count, <<>>))
            /\ Runs(c, "append") =>
                  Does(c, SpliceOutcome(doc, ObjOf(c), Len(TextBefore(c)), 0, call[c].text))]_vars

\* C20: a splice with a negative delete count fails with
\* DocumentOperationFailure and leaves the text as it is.
C20_NegativeDeleteRejected ==
    [][\A c \in Callers :
         (Runs(c, "splice") /\ call[c].called.method = "splice" /\ call[c].delete < 0)
           => (call'[c].status = DocumentOperationFailure /\ docs' = docs)]_vars

TextOps == {"get", "length", "splice", "append"}

\* C16: append reads the length and splices in one step, holding the guard of
\* its Text before and after: the text after it is the text as it was when
\* the step began with the appended string behind it, whole, and no other
\* caller moves in that step.  With concurrent appends, through one Text or
\* through several Texts of the object, a text changes in no other way: it is
\* its first content followed by every appended string, in the order in which
\* the appends ran.
C16_AppendAtomic ==
    [][/\ \A c \in Callers :
            Runs(c, "append") =>
               /\ locks[GuardOf(call[c].h)].holder = {c}
               /\ locks'[GuardOf(call[c].h)].holder = {c}
               /\ call'[c].status = Ok
               /\ TextAfter(c) = Concat(TextBefore(c), call[c].text)
               /\ \A d \in Callers \ {c} : pc'[d] = pc[d] /\ call'[d] = call[d]
       /\ \A d \in DocIds, o \in ObjIds :
            (docs[d].exists /\ o <= docs[d].nobj /\ TextOf(docs'[d], o) # TextOf(docs[d], o)) =>
                \E c \in Callers : Runs(c, "append") /\ DocOf(c) = d /\ ObjOf(c) = o]_vars

\* Two appends, "x" and "y", through two Texts of one text object have both
\* run in their own critical sections, and the text ends with both strings.
C16_Witness ==
    \E c1, c2 \in Callers :
        /\ pc[c1] = "return" /\ call[c1].op = "append" /\ call[c1].text = <<"x">>
        /\ pc[c2] = "return" /\ call[c2].op = "append" /\ call[c2].text = <<"y">>
        /\ call[c1].h # call[c2].h
        /\ ObjOf(c1) = ObjOf(c2) /\ DocOf(c1) = DocOf(c2)
        /\ TextBefore(c1) = <<"x", "x", "y">>

\* C17: once the field a Text was bound to holds a non-text value, every get,
\* length, splice, insert, delete and append called on the Text from then on
\* fails with DocumentOperationFailure; it returns nothing of the old text
\* and leaves the document as it is.
C17_InvalidatedTextFails ==
    [][\A c \in Callers :
         ((\E op \in TextOps : Runs(c, op)) /\ ~call[c].bound) =>
            /\ call'[c].status = DocumentOperationFailure
            /\ call'[c].val = <<>>
            /\ docs' = docs]_vars

\* C18: a set_string writes its own key and keeps every other key as it is,
\* whatever other calls are in flight on the DocHandle; get_keys returns the
\* keys that hold a value and get_string the string at its key.  So when two
\* set_string calls with different keys run concurrently on one DocHandle,
\* both writes are there once both have completed.
C18_NoLostUpdate ==
    [][\A c \in Callers :
         /\ Runs(c, "set_string") =>
               /\ call'[c].status = Ok
               /\ Get(docs'[DocOf(c)], call[c].key) = [t |-> "str", s |-> call[c].value]
               /\ \A k \in Keys \ {call[c].key} :
                     Get(docs'[DocOf(c)], k) = Get(docs[DocOf(c)], k)
         /\ Runs(c, "get_keys") =>
               /\ call'[c].status = Ok
               /\ call'[c].val = Some({k \in Keys : Get(docs[DocOf(c)], k) # NoValue})
         /\ Runs(c, "get_string") =>
               \A s \in Values :
                   Get(docs[DocOf(c)], call[c].key) = [t |-> "str", s |-> s]
                     => call'[c].val = Some(s)
         /\ (Returns(c, "set_string") \/ Returns(c, "get_keys")) =>
               (ret'[c].status = call[c].status /\ ret'[c].val = call[c].val)]_vars

\* set_string("b", "y") was called while another caller's operation on the
\* DocHandle was in flight and has run; the other caller's set_string has
\* returned; and both keys hold their strings.
C18_Witness ==
    \E c1, c2 \in Callers :
        /\ ret[c1].op = "set_string" /\ ret[c1].status = Ok
        /\ pc[c2] = "return" /\ call[c2].op = "set_string" /\ call[c2].busy
        /\ call[c2].key = "b" /\ call[c2].value = <<"y">>
        /\ docs[1].nobj = 0
        /\ Get(docs[1], "a") = [t |-> "str", s |-> <<"x">>]
        /\ Get(docs[1], "b") = [t |-> "str", s |-> <<"y">>]

\* The guards a caller holds: the mutexes of handles and the registry's lock.
Held(c) ==
    Cardinality({l \in 1..Len(locks) : c \in locks[l].holder})
      + (IF c \in tasksLock THEN 1 ELSE 0)

\* The next step of a caller's pending call.
StepOf(c) ==
    \/ ConnectTransport(c) \/ ConnectSpawn(c) \/ ConnectPush(c) \/ ConnectReturn(c)
    \/ StopAbort(c) \/ StopUnlock(c) \/ StopHalt(c) \/ StopReturn(c)
    \/ CreateEngine(c) \/ FindEngine(c)
    \/ Acquire(c) \/ WithDocument(c) \/ OpReturn(c)

\* The callers that have to move before a waiting caller can: the holder of
\* the guard it asked for and the callers ahead of it in the guard's queue.
Ahead(c) ==
    IF pc[c] = "lock"
    THEN LET l == locks[GuardOf(call[c].h)]
         IN l.holder \cup {l.waiters[i] : i \in {j \in 1..Len(l.waiters) :
                                \A m \in 1..j : l.waiters[m] # c}}
    ELSE IF pc[c] = "spawned" THEN tasksLock
    ELSE {}

\* A pending call can step, or everyone it waits for can (in n rounds).
RECURSIVE Moves(_, _)
Moves(c, n) ==
    /\ pc[c] # "idle"
    /\ \/ ENABLED StepOf(c)
       \/ /\ n > 0
          /\ Ahead(c) # {}
          /\ \A d \in Ahead(c) : Moves(d, n - 1)

\* C19: no caller holds more than one guard; a caller that waits for a guard
\* holds none and stands once in that guard's queue, so none asks again for a
\* guard it holds; only a pending call holds a guard; and every pending call
\* can step, or waits only for calls that can: no set of pending calls waits
\* on each other.
C19_DeadlockFree ==
    /\ \A c \in Callers : Held(c) <= 1
    /\ \A c \in Callers : pc[c] = "idle" => Held(c) = 0
    /\ \A c \in Callers :
          pc[c] \in {"lock", "spawned"} =>
             /\ Held(c) = 0
             /\ pc[c] = "lock" =>
                   Cardinality({i \in 1..Len(locks[GuardOf(call[c].h)].waiters) :
                                   locks[GuardOf(call[c].h)].waiters[i] = c}) = 1
    /\ \A c \in Callers : pc[c] # "idle" => Moves(c, NumCallers)

\* A stop holds the registry's lock with a task to abort while a connect
\* waits to push its task, and a Text exists.
C19_Witness ==
    \E c1, c2 \in Callers :
        /\ pc[c1] = "drain" /\ tasks # <<>> /\ tasksLock = {c1}
        /\ pc[c2] = "spawned"
        /\ HandlesOf("text") # {}

\* C23: when the closure of a splice, insert, delete or append fails, the
\* call fails with DocumentOperationFailure and the document is as it was: the
\* text, its length and every root field (and every other document).
C23_FailedEditChangesNothing ==
    [][\A c \in Callers :
         /\ ((Runs(c, "splice") \/ Runs(c, "append")) /\ call'[c].status # Ok) =>
               /\ call'[c].status = DocumentOperationFailure
               /\ docs' = docs
         /\ ((Returns(c, "splice") \/ Returns(c, "append")) /\ call[c].status # Ok) =>
               /\ ret'[c].status = DocumentOperationFailure
               /\ docs' = docs]_vars

\* An insert at position 2 of the text "x" has failed; the text is still "x"
\* and still at its key.
C23_Witness ==
    \E c \in Callers :
        /\ pc[c] = "return" /\ call[c].op = "splice"
        /\ call[c].called.method = "insert" /\ call[c].pos = 2
        /\ call[c].status = DocumentOperationFailure
        /\ TextBefore(c) = <<"x">>
        /\ Get(docs[DocOf(c)], "a") = [t |-> "text", obj |-> ObjOf(c)]

\* C21: every operation that waits for a DocHandle's guard gets it in the end
\* (each holder runs its closure and ends); the operation that gets a guard is
\* the first of the guard's queue, and a queue changes only by a request
\* joining at its end or by its first leaving with the guard: operations on a
\* handle get the guard in the order in which they asked for it.
C21_FifoProgress ==
    /\ \A c \in Callers : (pc[c] = "lock") ~> (pc[c] = "with_document")
    /\ [][/\ \A c \in Callers :
              (pc[c] = "lock" /\ pc'[c] = "with_document") =>
                 LET l == GuardOf(call[c].h)
                 IN /\ locks[l].holder = {} /\ locks'[l].holder = {c}
                    /\ Head(locks[l].waiters) = c
                    /\ locks'[l].waiters = Tail(locks[l].waiters)
         /\ \A l \in 1..Len(locks) :
              \/ locks'[l].waiters = locks[l].waiters
              \/ locks[l].waiters # <<>> /\ locks'[l].waiters = Tail(locks[l].waiters)
              \/ \E c \in Callers :
                    /\ pc[c] = "idle" /\ pc'[c] = "lock"
                    /\ locks'[l].waiters = Append(locks[l].waiters, c)]_vars

\* Two operations asked for one DocHandle's guard, the second while the first
\* was in flight: the first has the guard and the second waits in the queue.
C21_Witness ==
    \E c1, c2 \in Callers :
        /\ pc[c1] = "with_document" /\ ~call[c1].busy
        /\ pc[c2] = "lock" /\ call[c2].busy
        /\ call[c1].h = call[c2].h
        /\ locks[GuardOf(call[c1].h)].waiters = <<c2>>

\* C22: an operation that waits for its handle's guard waits only for
\* operations on handles of its own document, and takes the guard as soon as
\* none of them is ahead of it, whatever guards of other documents are held;
\* the closure of an operation leaves every document but its own as it was,
\* and a document that exists changes only in the closure of an operation on
\* one of its own handles.
C22_DocumentsApart ==
    /\ [](\A c \in Callers :
            pc[c] = "lock" =>
               /\ \A e \in Ahead(c) : DocOf(e) = DocOf(c)
               /\ Ahead(c) = {} => ENABLED Acquire(c))
    /\ [][/\ \A c \in Callers :
              (pc[c] = "with_document" /\ pc'[c] = "return") =>
                 \A d \in DocIds \ {DocOf(c)} : docs'[d] = docs[d]
         /\ \A d \in DocIds :
              (docs[d].exists /\ docs'[d] # docs[d]) =>
                 \E c \in Callers :
                    /\ pc[c] = "with_document" /\ pc'[c] = "return"
                    /\ DocOf(c) = d]_vars

\* An operation on one document has written and still holds its guard while
\* an operation on another document, still empty, holds the guard of a handle
\* of that one.
C22_Witness ==
    \E c1, c2 \in Callers :
        /\ pc[c1] = "return" /\ call[c1].op = "set_string" /\ call[c1].status = Ok
        /\ pc[c2] = "with_document"
        /\ DocOf(c1) # DocOf(c2)
        /\ docs[DocOf(c1)] # EmptyDoc
        /\ docs[DocOf(c2)] = EmptyDoc

====
